---- MODULE Spec2Model ----
(***************************************************************************)
(* Model of the depth-based geometric transforms of the 3d-viewer python   *)
(* backend: generate_displaced_mesh (generate_mesh.py) and shift_view      *)
(* (generate_views.py).  One call of one of the two functions is followed  *)
(* from its arguments to its return, statement group by statement group.   *)
(*                                                                         *)
(* Real numbers are exact rationals <<numerator, denominator>> in lowest   *)
(* terms; arrays are records [shape |-> <<rows, cols>>, data |-> f] with   *)
(* f[r][c] indexed from 0 as in numpy.  An image has one channel (the      *)
(* code treats the channels alike).                                        *)
(***************************************************************************)
EXTENDS Integers, Sequences, FiniteSets, TLC

VARIABLES
    prog,               \* which function is being called: "mesh" or "views"
    pc,                 \* position in the function body
    image_file,         \* the file at image_path: an array, or Unreadable
    depth_file,         \* the file at depth_path: an array, or Unreadable
    grid_density,       \* argument of generate_displaced_mesh
    depth_scale,        \* argument of generate_displaced_mesh
    shifts,             \* argument of shift_view
    disk,               \* environment: the loop indices whose cv2.imwrite fails
    img,                \* local: the loaded image
    depth_map,          \* local: the loaded depth map (depth in shift_view)
    depth_normalized,   \* local
    xv, yv,             \* local: the meshgrid
    sampled_depth,      \* local: [coords, from, data]
    vertices, uvs, faces, \* local: the mesh lists
    output_json,        \* the file at output_json_path: mesh_data, or NoFile
    i,                  \* local: loop index of shift_view
    map_x_shifted,      \* local: the source columns of the last view
    output_dir,         \* the files written to output_dir, in writing order
    shift_from,         \* history: shapes of the depth arrays the shifts were computed from
    write_failed,       \* history: indices whose cv2.imwrite returned False
    on_path,            \* environment: the commands shutil.which finds
    sparse_listing,     \* environment: the model directories the mapper leaves in sparse/
    use_gpu,            \* local of run_colmap_pipeline
    stage,              \* which of the six run_command calls is executing (1..6)
    started,            \* history: the commands subprocess.Popen started, in order
    returncodes,        \* history: the return codes of the processes waited for
    result,             \* "pending", or what the call returned: "True", "False"
    exc                 \* the exception the call raised, "" if none

vars == << prog, pc, image_file, depth_file, grid_density, depth_scale, shifts,
           disk, img, depth_map, depth_normalized, xv, yv, sampled_depth,
           vertices, uvs, faces, output_json, i, map_x_shifted, output_dir,
           shift_from, write_failed, on_path, sparse_listing, use_gpu, stage,
           started, returncodes, result, exc >>

colmap_vars == << on_path, sparse_listing, use_gpu, stage, started, returncodes,
                  result, exc >>

inputs == << prog, image_file, depth_file, grid_density, depth_scale, shifts, disk >>

mesh_locals == << xv, yv, sampled_depth, vertices, uvs, faces, output_json >>

view_locals == << i, map_x_shifted, output_dir, shift_from, write_failed >>

\* Python's None, a file cv2.imread cannot read, and a path with no file
None == [ none |-> TRUE ]
Unreadable == [ unreadable |-> TRUE ]
NoFile == [ nofile |-> TRUE ]

(***************************************************************************)
(* Bounds of the model.                                                    *)
(***************************************************************************)
MaxDim == 4          \* image width and height range over 1..MaxDim (mesh)
MaxDepthDim == 2     \* a depth map of another size has sides in 1..MaxDepthDim
MaxDensity == 4      \* grid densities range over -1..MaxDensity
MaxViewDim == 2      \* image width and height range over 1..MaxViewDim (views)
MaxShifts == 2       \* shift lists have 0..MaxShifts entries
LongShifts == 1001   \* length of the shift lists of SpecLong
MaxReturnCode == 2   \* a process exits with -9 (killed) or with 0..MaxReturnCode

(***************************************************************************)
(* Exact rational arithmetic.                                              *)
(***************************************************************************)
Abs(n) == IF n < 0 THEN -n ELSE n

RECURSIVE Gcd(_, _)
Gcd(a, b) == IF b = 0 THEN a ELSE Gcd(b, a % b)

Rat(n, d) ==
    LET s == IF d < 0 THEN -1 ELSE 1
        g == Gcd(Abs(n), Abs(d))
    IN  << (s * n) \div g, (s * d) \div g >>

RInt(n) == << n, 1 >>
RAdd(a, b) == Rat(a[1] * b[2] + b[1] * a[2], a[2] * b[2])
RSub(a, b) == Rat(a[1] * b[2] - b[1] * a[2], a[2] * b[2])
RMul(a, b) == Rat(a[1] * b[1], a[2] * b[2])
RDiv(a, b) == Rat(a[1] * b[2], a[2] * b[1])
RNeg(a) == << -a[1], a[2] >>
RAbs(a) == << Abs(a[1]), a[2] >>
RLe(a, b) == a[1] * b[2] <= b[1] * a[2]
RLt(a, b) == a[1] * b[2] < b[1] * a[2]
RHalf == Rat(1, 2)

\* floor of a rational
Floor(a) == a[1] \div a[2]

\* mutant of AsTypeInt: the float is rounded to the nearest integer
AsTypeIntRounded(a) ==
    LET twice == a[1] * 2 + a[2]
    IN  twice \div (2 * a[2])

\* ndarray.astype(int) on a float: truncation toward zero
AsTypeInt(a) == IF a[1] >= 0 THEN a[1] \div a[2] ELSE -((-a[1]) \div a[2])

\* round to nearest, ties to the even integer (Python round, cvRound)
Round(a) ==
    LET f == Floor(a)
        twice == RSub(RMul(RInt(2), a), RInt(2 * f))   \* 2 * fractional part
    IN  IF twice[1] < twice[2] THEN f
        ELSE IF twice[1] > twice[2] THEN f + 1
        ELSE IF f % 2 = 0 THEN f ELSE f + 1

\* np.clip on an integer
Clip(v, lo, hi) == IF v < lo THEN lo ELSE IF v > hi THEN hi ELSE v

(***************************************************************************)
(* Arrays.                                                                 *)
(***************************************************************************)
Array(rows, cols, F(_, _)) ==
    [ shape |-> << rows, cols >>,
      data  |-> [r \in 0 .. rows - 1 |-> [c \in 0 .. cols - 1 |-> F(r, c)]] ]

Rows(a) == a.shape[1]
Cols(a) == a.shape[2]
At(a, r, c) == a.data[r][c]
Cells(a) == { << r, c >> : r \in 0 .. Rows(a) - 1, c \in 0 .. Cols(a) - 1 }

RECURSIVE MaxOver(_, _)
MaxOver(a, cells) ==
    IF cells = {} THEN 0
    ELSE LET p == CHOOSE q \in cells : TRUE
             m == MaxOver(a, cells \ {p})
             v == At(a, p[1], p[2])
         IN  IF v > m THEN v ELSE m

\* np.max
NpMax(a) == MaxOver(a, Cells(a))

(***************************************************************************)
(* cv2.imread and cv2.resize.                                              *)
(***************************************************************************)
\* cv2.imread: None for a file that cannot be read
Imread(file) == IF file = Unreadable THEN None ELSE file

\* cv2.resize, INTER_LINEAR, one axis: the two source indices and their
\* weights (11-bit fixed point) for destination index d of n_dst from n_src
ResizeCoef(d, n_dst, n_src) ==
    LET f == Rat((2 * d + 1) * n_src - n_dst, 2 * n_dst)
        s == Floor(f)
        frac == RSub(f, RInt(s))
        lo == s < 0
        hi == s >= n_src - 1
        i0 == IF lo THEN 0 ELSE IF hi THEN n_src - 1 ELSE s
        i1 == IF lo THEN 0 ELSE IF hi THEN n_src - 1 ELSE s + 1
        w1 == IF lo \/ hi THEN 0 ELSE Round(RMul(frac, RInt(2048)))
    IN  [i0 |-> i0, i1 |-> i1, w0 |-> 2048 - w1, w1 |-> w1]

\* cv2.resize(src, (w, h), interpolation=cv2.INTER_LINEAR) on 8-bit data
Resize(src, w, h) ==
    Array(h, w,
          LAMBDA r, c :
              LET y == ResizeCoef(r, h, Rows(src))
                  x == ResizeCoef(c, w, Cols(src))
                  sum == y.w0 * x.w0 * At(src, y.i0, x.i0)
                         + y.w0 * x.w1 * At(src, y.i0, x.i1)
                         + y.w1 * x.w0 * At(src, y.i1, x.i0)
                         + y.w1 * x.w1 * At(src, y.i1, x.i1)
              IN  (sum + 2097152) \div 4194304)

(***************************************************************************)
(* generate_displaced_mesh: the pure parts.                                *)
(***************************************************************************)
\* mutant of Normalize: division by 255, as shift_view does
NormalizeBy255(dm) ==
    Array(Rows(dm), Cols(dm), LAMBDA r, c : Rat(At(dm, r, c), 255))

\* lines 41-46: division by the map's maximum, or zeros for a black map
Normalize(dm) ==
    LET max_depth == NpMax(dm)
    IN  IF max_depth = 0
        THEN Array(Rows(dm), Cols(dm), LAMBDA r, c : RInt(0))
        ELSE Array(Rows(dm), Cols(dm), LAMBDA r, c : Rat(At(dm, r, c), max_depth))

\* np.linspace(start, stop, num), num >= 0
Linspace(start, stop, num) ==
    [k \in 0 .. num - 1 |->
        IF num = 1 THEN start
        ELSE RAdd(start, RMul(RInt(k), RDiv(RSub(stop, start), RInt(num - 1))))]

AspectRatio(w, h) == Rat(w, h)

\* lines 54 and 55
GridX(w, h, density) == Linspace(RNeg(AspectRatio(w, h)), AspectRatio(w, h), density)
GridY(density) == Linspace(RInt(-1), RInt(1), density)

\* np.meshgrid(x, y): xv[i][j] = x[j], yv[i][j] = y[i]
MeshgridX(x, y, density) == Array(density, density, LAMBDA r, c : x[c])
MeshgridY(x, y, density) == Array(density, density, LAMBDA r, c : y[r])

\* lines 60 and 64: grid x to pixel column
ImgXCoord(x, w, h) ==
    Clip(AsTypeInt(RMul(RDiv(RAdd(RDiv(x, AspectRatio(w, h)), RInt(1)), RInt(2)), RInt(w))),
         0, w - 1)

\* lines 61 and 65: grid y to pixel row
ImgYCoord(y, h) ==
    Clip(AsTypeInt(RMul(RDiv(RAdd(RNeg(y), RInt(1)), RInt(2)), RInt(h))), 0, h - 1)

\* mutant of Displace: the displacement is not centred on zero
DisplaceUncentred(sample, scale) == RMul(sample, scale)

\* line 73
Displace(sample, scale) == RMul(RSub(sample, RHalf), scale)

\* lines 81 and 82
UCoord(x, w, h) == RDiv(RAdd(RDiv(x, AspectRatio(w, h)), RInt(1)), RInt(2))
VCoord(y) == RDiv(RAdd(RNeg(y), RInt(1)), RInt(2))

\* ndarray.flatten() of a 2-d array, as a list indexed from 0
Flatten(a) ==
    [n \in 0 .. Rows(a) * Cols(a) - 1 |-> At(a, n \div Cols(a), n % Cols(a))]

\* lines 91-98: the two triangles of grid cell (i, j)
FaceCell(ci, cj, grid_w) ==
    LET v0 == ci * grid_w + cj
        v1 == ci * grid_w + (cj + 1)
        v2 == (ci + 1) * grid_w + cj
        v3 == (ci + 1) * grid_w + (cj + 1)
    IN  << << v0, v1, v2 >>, << v1, v3, v2 >> >>

\* mutant of FacesCols: for j in range(grid_w)
RECURSIVE FacesColsFull(_, _, _, _)
FacesColsFull(ci, cj, grid_w, acc) ==
    IF cj >= grid_w THEN acc
    ELSE FacesColsFull(ci, cj + 1, grid_w, acc \o FaceCell(ci, cj, grid_w))

\* line 89: for j in range(grid_w - 1)
RECURSIVE FacesCols(_, _, _, _)
FacesCols(ci, cj, grid_w, acc) ==
    IF cj >= grid_w - 1 THEN acc
    ELSE FacesCols(ci, cj + 1, grid_w, acc \o FaceCell(ci, cj, grid_w))

\* line 88: for i in range(grid_h - 1)
RECURSIVE FacesRows(_, _, _, _)
FacesRows(ci, grid_h, grid_w, acc) ==
    IF ci >= grid_h - 1 THEN acc
    ELSE FacesRows(ci + 1, grid_h, grid_w, FacesCols(ci, 0, grid_w, acc))

Faces(grid_h, grid_w) == FacesRows(0, grid_h, grid_w, << >>)

(***************************************************************************)
(* The inputs.                                                             *)
(***************************************************************************)
ImageOf(h, w) == Array(h, w, LAMBDA r, c : (37 * (r * w + c) + 11) % 256)

DepthKinds == { "black", "grey", "ramp", "peak" }

DepthOf(kind, h, w) ==
    Array(h, w,
          LAMBDA r, c :
              CASE kind = "black" -> 0
                [] kind = "grey" -> 128
                [] kind = "ramp" ->
                       IF h * w = 1 THEN 255 ELSE ((r * w + c) * 255) \div (h * w - 1)
                [] kind = "peak" -> IF r = 0 /\ c = 0 THEN 200 ELSE 50)

\* the depth files tried with an image of shape h x w: of the image's shape,
\* or of any small shape
DepthShapes(h, w) ==
    { << h, w >> } \cup ((1 .. MaxDepthDim) \X (1 .. MaxDepthDim))

DepthFiles(kinds, h, w) ==
    { DepthOf(k, s[1], s[2]) : k \in kinds, s \in DepthShapes(h, w) }

Densities == -1 .. MaxDensity

DepthScales == { Rat(0, 1), Rat(1, 10), Rat(1, 5) }

(***************************************************************************)
(* Initial states: the arguments of one call, and the files they name.     *)
(***************************************************************************)
InitLocals ==
    /\ pc = "imread"
    /\ img = None
    /\ depth_map = None
    /\ depth_normalized = None
    /\ xv = None
    /\ yv = None
    /\ sampled_depth = None
    /\ vertices = None
    /\ uvs = None
    /\ faces = None
    /\ output_json = NoFile
    /\ i = 0
    /\ map_x_shifted = None
    /\ output_dir = << >>
    /\ shift_from = {}
    /\ write_failed = {}
    /\ on_path = {}
    /\ sparse_listing = {}
    /\ use_gpu = FALSE
    /\ stage = 0
    /\ started = << >>
    /\ returncodes = << >>
    /\ result = "pending"
    /\ exc = ""

InitMesh ==
    /\ prog = "mesh"
    /\ \E h \in 1 .. MaxDim, w \in 1 .. MaxDim :
          /\ image_file \in { ImageOf(h, w), Unreadable }
          /\ depth_file \in DepthFiles(DepthKinds, h, w) \cup { Unreadable }
    /\ grid_density \in Densities
    /\ depth_scale \in DepthScales
    /\ shifts = << >>
    /\ disk = {}
    /\ InitLocals

(***************************************************************************)
(* generate_displaced_mesh, lines 14-112.                                  *)
(***************************************************************************)
\* lines 19-31: load both files; return when either cannot be read
gdm_imread ==
    /\ prog = "mesh"
    /\ pc = "imread"
    /\ img' = Imread(image_file)
    /\ depth_map' = Imread(depth_file)
    /\ \/ /\ (image_file = Unreadable \/ depth_file = Unreadable)
          /\ pc' = "done"
       \/ /\ image_file # Unreadable
          /\ depth_file # Unreadable
          /\ pc' = "resize"
    /\ UNCHANGED << colmap_vars, inputs, depth_normalized, mesh_locals, view_locals >>

\* lines 31-36: resize the depth map to the image's shape if it differs
gdm_resize ==
    /\ prog = "mesh"
    /\ pc = "resize"
    /\ \/ /\ depth_map.shape # img.shape
          /\ depth_map' = Resize(depth_map, Cols(img), Rows(img))
       \/ /\ depth_map.shape = img.shape
          /\ UNCHANGED depth_map
    /\ pc' = "normalize"
    /\ UNCHANGED << colmap_vars, inputs, img, depth_normalized, mesh_locals, view_locals >>

\* lines 41-46
gdm_normalize ==
    /\ prog = "mesh"
    /\ pc = "normalize"
    /\ depth_normalized' = Normalize(depth_map)
    /\ pc' = "grid"
    /\ UNCHANGED << colmap_vars, inputs, img, depth_map, mesh_locals, view_locals >>

\* lines 50-56: np.linspace raises ValueError for a negative number of samples
gdm_grid ==
    /\ prog = "mesh"
    /\ pc = "grid"
    /\ \/ /\ grid_density < 0
          /\ pc' = "raised"
          /\ UNCHANGED << xv, yv >>
       \/ /\ grid_density >= 0
          /\ LET x == GridX(Cols(img), Rows(img), grid_density)
                 y == GridY(grid_density)
             IN  /\ xv' = MeshgridX(x, y, grid_density)
                 /\ yv' = MeshgridY(x, y, grid_density)
          /\ pc' = "sample"
    /\ UNCHANGED << colmap_vars, inputs, img, depth_map, depth_normalized, sampled_depth,
                    vertices, uvs, faces, output_json, view_locals >>

\* lines 58-68
gdm_sample ==
    /\ prog = "mesh"
    /\ pc = "sample"
    /\ LET w == Cols(img)
           h == Rows(img)
           img_x_coords == Array(Rows(xv), Cols(xv),
                                 LAMBDA r, c : ImgXCoord(At(xv, r, c), w, h))
           img_y_coords == Array(Rows(yv), Cols(yv),
                                 LAMBDA r, c : ImgYCoord(At(yv, r, c), h))
       IN  sampled_depth' =
               [ x    |-> img_x_coords,
                 y    |-> img_y_coords,
                 from |-> depth_normalized.shape,
                 data |-> Array(Rows(xv), Cols(xv),
                                LAMBDA r, c : At(depth_normalized,
                                                 At(img_y_coords, r, c),
                                                 At(img_x_coords, r, c))) ]
    /\ pc' = "displace"
    /\ UNCHANGED << colmap_vars, inputs, img, depth_map, depth_normalized, xv, yv,
                    vertices, uvs, faces, output_json, view_locals >>

\* lines 70-83
gdm_displace ==
    /\ prog = "mesh"
    /\ pc = "displace"
    /\ LET w == Cols(img)
           h == Rows(img)
           zv == Array(Rows(xv), Cols(xv),
                       LAMBDA r, c : Displace(At(sampled_depth.data, r, c), depth_scale))
           fx == Flatten(xv)
           fy == Flatten(yv)
           fz == Flatten(zv)
       IN  /\ vertices' = [n \in DOMAIN fx |-> << fx[n], fy[n], fz[n] >>]
           /\ uvs' = [n \in DOMAIN fx |-> << UCoord(fx[n], w, h), VCoord(fy[n]) >>]
    /\ pc' = "faces"
    /\ UNCHANGED << colmap_vars, inputs, img, depth_map, depth_normalized, xv, yv,
                    sampled_depth, faces, output_json, view_locals >>

\* lines 85-98
gdm_faces ==
    /\ prog = "mesh"
    /\ pc = "faces"
    /\ faces' = Faces(Rows(xv), Cols(xv))
    /\ pc' = "write"
    /\ UNCHANGED << colmap_vars, inputs, img, depth_map, depth_normalized, xv, yv,
                    sampled_depth, vertices, uvs, output_json, view_locals >>

\* lines 100-112: json.dump, or an IOError that is logged
gdm_write ==
    /\ prog = "mesh"
    /\ pc = "write"
    /\ \/ output_json' = [vertices |-> vertices, uvs |-> uvs, faces |-> faces]
       \/ UNCHANGED output_json
    /\ pc' = "done"
    /\ UNCHANGED << colmap_vars, inputs, img, depth_map, depth_normalized, xv, yv,
                    sampled_depth, vertices, uvs, faces, view_locals >>

generate_displaced_mesh ==
    \/ gdm_imread
    \/ gdm_resize
    \/ gdm_normalize
    \/ gdm_grid
    \/ gdm_sample
    \/ gdm_displace
    \/ gdm_faces
    \/ gdm_write

(***************************************************************************)
(* shift_view: the pure parts.                                             *)
(***************************************************************************)
\* line 47
perspective_strength == Rat(3, 10)

\* lines 40-42 and 60-63, for pixel column x of an image w wide
PerspectiveScale(x, w) ==
    LET center_x == Rat(w, 2)
        relative_x == RSub(RInt(x), center_x)
    IN  IF RLt(RInt(0), center_x)
        THEN RAdd(RInt(1), RMul(RDiv(RAbs(relative_x), center_x), perspective_strength))
        ELSE RInt(1)

\* numpy broadcasting of two 2-d shapes
Broadcastable(s, t) ==
    /\ (s[1] = t[1] \/ s[1] = 1 \/ t[1] = 1)
    /\ (s[2] = t[2] \/ s[2] = 1 \/ t[2] = 1)

BroadcastDim(m, n) == IF m = 1 THEN n ELSE m
BroadcastShape(s, t) == << BroadcastDim(s[1], t[1]), BroadcastDim(s[2], t[2]) >>
BroadcastAt(a, r, c) ==
    At(a, IF Rows(a) = 1 THEN 0 ELSE r, IF Cols(a) = 1 THEN 0 ELSE c)

\* mutant of MapXShifted: the perspective scale is added, not multiplied
MapXShiftedAdded(depth, h, w, shift_amount) ==
    LET shape == BroadcastShape(depth.shape, << h, w >>)
    IN  Array(shape[1], shape[2],
              LAMBDA r, c :
                  RAdd(RAdd(RInt(IF w = 1 THEN 0 ELSE c),
                            RMul(RInt(shift_amount), Rat(BroadcastAt(depth, r, c), 255))),
                       PerspectiveScale(IF w = 1 THEN 0 ELSE c, w)))

\* lines 56-68: map_x_base + shift_amount * (depth / 255.0) * perspective_scale,
\* for an image of shape h x w; the operands broadcast
MapXShifted(depth, h, w, shift_amount) ==
    LET map_x_base == Array(h, w, LAMBDA r, c : RInt(c))
        perspective_scale == Array(h, w, LAMBDA r, c : PerspectiveScale(c, w))
        shape == BroadcastShape(depth.shape, << h, w >>)
    IN  Array(shape[1], shape[2],
              LAMBDA r, c :
                  RAdd(BroadcastAt(map_x_base, r, c),
                       RMul(RMul(RInt(shift_amount),
                                 Rat(BroadcastAt(depth, r, c), 255)),
                            BroadcastAt(perspective_scale, r, c))))

\* cv2.remap(src, map_x, map_y, INTER_LINEAR, BORDER_REPLICATE) with map_y the
\* row index: source columns in 1/32 pixel steps, weights in fixed point
Remap(src, map_x) ==
    Array(Rows(map_x), Cols(map_x),
          LAMBDA r, c :
              LET sx == Round(RMul(At(map_x, r, c), RInt(32)))
                  ix == sx \div 32
                  a == sx % 32
                  p0 == At(src, r, Clip(ix, 0, Cols(src) - 1))
                  p1 == At(src, r, Clip(ix + 1, 0, Cols(src) - 1))
              IN  ((32 - a) * p0 + a * p1 + 16) \div 32)

\* the decimal digits of n >= 0, as character codes
RECURSIVE Digits(_)
Digits(n) == IF n < 10 THEN << 48 + n >> ELSE Digits(n \div 10) \o << 48 + (n % 10) >>

\* format(n, "03d") for n >= 0
RECURSIVE ZeroPad(_, _)
ZeroPad(str, width) == IF Len(str) >= width THEN str ELSE ZeroPad(<< 48 >> \o str, width)

\* str(n) of an integer
IntStr(n) == IF n < 0 THEN << 45 >> \o Digits(-n) ELSE Digits(n)

\* line 80: f"view_{i:03d}_shift_{shift_amount}.png", as character codes
OutputFilename(idx, shift_amount) ==
    << 118, 105, 101, 119, 95 >> \o ZeroPad(Digits(idx), 3)
        \o << 95, 115, 104, 105, 102, 116, 95 >> \o IntStr(shift_amount)
        \o << 46, 112, 110, 103 >>

(***************************************************************************)
(* shift_view, lines 16-85.                                                *)
(***************************************************************************)
ShiftValues == { -2, 0, 1 }

RECURSIVE SeqsUpTo(_, _)
SeqsUpTo(S, n) ==
    IF n = 0 THEN { << >> }
    ELSE LET shorter == SeqsUpTo(S, n - 1)
         IN  shorter \cup { Append(q, v) : q \in { p \in shorter : Len(p) = n - 1 }, v \in S }

InitViews ==
    /\ prog = "views"
    /\ \E h \in 1 .. MaxViewDim, w \in 1 .. MaxViewDim :
          /\ image_file \in { ImageOf(h, w), Unreadable }
          /\ depth_file \in DepthFiles({ "grey", "ramp" }, h, w) \cup { Unreadable }
    /\ grid_density = 0
    /\ depth_scale = RInt(0)
    /\ shifts \in SeqsUpTo(ShiftValues, MaxShifts)
    /\ disk \in { {} } \cup { { k } : k \in 0 .. MaxShifts - 1 }
    /\ InitLocals

\* lines 18-32: load the image, then the depth map; return when one cannot be read
sv_imread ==
    /\ prog = "views"
    /\ pc = "imread"
    /\ img' = Imread(image_file)
    /\ \/ /\ image_file = Unreadable
          /\ pc' = "done"
          /\ UNCHANGED depth_map
       \/ /\ image_file # Unreadable
          /\ depth_file = Unreadable
          /\ depth_map' = None
          /\ pc' = "done"
       \/ /\ image_file # Unreadable
          /\ depth_file # Unreadable
          /\ depth_map' = depth_file
          /\ pc' = "makedirs"
    /\ UNCHANGED << colmap_vars, inputs, depth_normalized, mesh_locals, view_locals >>

\* lines 34-48: os.makedirs(output_dir, exist_ok=True), or the OSError it raises
sv_makedirs ==
    /\ prog = "views"
    /\ pc = "makedirs"
    /\ \/ pc' = "loop"
       \/ pc' = "raised"
    /\ UNCHANGED << colmap_vars, inputs, img, depth_map, depth_normalized, mesh_locals, view_locals >>

\* lines 51-83: one iteration of the loop over enumerate(shifts)
sv_view ==
    /\ prog = "views"
    /\ pc = "loop"
    /\ i < Len(shifts)
    /\ LET shift_amount == shifts[i + 1]
           h == Rows(img)
           w == Cols(img)
           shifted == MapXShifted(depth_map, h, w, shift_amount)
           warped == Remap(img, shifted)
       IN  \/ \* line 67: the operands do not broadcast, ValueError
              /\ ~Broadcastable(depth_map.shape, img.shape)
              /\ pc' = "raised"
              /\ UNCHANGED << i, map_x_shifted, output_dir, shift_from, write_failed >>
           \/ \* line 71: map_x_shifted and map_y differ in shape, cv2.error
              /\ Broadcastable(depth_map.shape, img.shape)
              /\ shifted.shape # img.shape
              /\ map_x_shifted' = shifted
              /\ shift_from' = shift_from \cup { depth_map.shape }
              /\ pc' = "raised"
              /\ UNCHANGED << i, output_dir, write_failed >>
           \/ \* line 82: the view is written
              /\ Broadcastable(depth_map.shape, img.shape)
              /\ shifted.shape = img.shape
              /\ i \notin disk
              /\ map_x_shifted' = shifted
              /\ shift_from' = shift_from \cup { depth_map.shape }
              /\ output_dir' = Append(output_dir,
                                      [ name |-> OutputFilename(i, shift_amount),
                                        i |-> i,
                                        shift_amount |-> shift_amount,
                                        data |-> warped ])
              /\ i' = i + 1
              /\ UNCHANGED << pc, write_failed >>
           \/ \* line 82: cv2.imwrite returns False, which nothing reads
              /\ Broadcastable(depth_map.shape, img.shape)
              /\ shifted.shape = img.shape
              /\ i \in disk
              /\ map_x_shifted' = shifted
              /\ shift_from' = shift_from \cup { depth_map.shape }
              /\ write_failed' = write_failed \cup { i }
              /\ i' = i + 1
              /\ UNCHANGED << pc, output_dir >>
    /\ depth_normalized' = Array(Rows(depth_map), Cols(depth_map),
                                 LAMBDA r, c : Rat(At(depth_map, r, c), 255))
    /\ UNCHANGED << colmap_vars, inputs, img, depth_map, mesh_locals >>

\* line 85: the loop is over
sv_return ==
    /\ prog = "views"
    /\ pc = "loop"
    /\ i >= Len(shifts)
    /\ pc' = "done"
    /\ UNCHANGED << colmap_vars, inputs, img, depth_map, depth_normalized, mesh_locals, view_locals >>

shift_view ==
    \/ sv_imread
    \/ sv_makedirs
    \/ sv_view
    \/ sv_return

Init == InitMesh \/ InitViews
Next == generate_displaced_mesh \/ shift_view
Spec == Init /\ [][Next]_vars

(***************************************************************************)
(* A call of shift_view with a long shift list: the inputs of SpecLong.    *)
(***************************************************************************)
\* -2, 0, 1, -2, 0, 1, ... : LongShifts entries
LongShiftList ==
    [k \in 1 .. LongShifts |-> IF k % 3 = 1 THEN -2 ELSE IF k % 3 = 2 THEN 0 ELSE 1]

InitLong ==
    /\ prog = "views"
    /\ image_file \in { ImageOf(1, 1), ImageOf(1, 3), Unreadable }
    /\ depth_file \in { DepthOf("grey", 1, 1), DepthOf("grey", 1, 2), Unreadable }
    /\ grid_density = 0
    /\ depth_scale = RInt(0)
    /\ shifts = LongShiftList
    /\ disk \in { {}, { LongShifts - 1 } }
    /\ InitLocals

SpecLong == InitLong /\ [][shift_view]_vars

(***************************************************************************)
(* run_colmap.py: run_command (lines 13-49) and run_colmap_pipeline        *)
(* (lines 51-169).  The external processes are the environment: a Popen    *)
(* either starts the command or raises, a started process exits with some  *)
(* return code.                                                            *)
(***************************************************************************)
\* the second word of the six command lists, in the order of the run_command
\* calls (lines 102, 111, 123, 143, 155, 166)
StageCommands ==
    << "feature_extractor", "exhaustive_matcher", "mapper",
       "image_undistorter", "patch_match_stereo", "stereo_fusion" >>

\* the return codes a process may exit with (negative: killed by a signal)
ReturnCodes == { -9 } \cup (0 .. MaxReturnCode)

\* mutant of CommandFailed: only a positive return code counts as a failure
CommandFailedPositive(returncode) == returncode > 0

\* line 38
CommandFailed(returncode) == returncode # 0

\* lines 16-19: final_command
FinalCommand(command, use_xvfb) ==
    IF use_xvfb THEN << "xvfb-run", "-a", "colmap", command >>
    ELSE << "colmap", command >>

InitColmap ==
    /\ prog = "colmap"
    /\ pc = "setup"
    /\ image_file = Unreadable
    /\ depth_file = Unreadable
    /\ grid_density = 0
    /\ depth_scale = RInt(0)
    /\ shifts = << >>
    /\ disk = {}
    /\ img = None
    /\ depth_map = None
    /\ depth_normalized = None
    /\ xv = None
    /\ yv = None
    /\ sampled_depth = None
    /\ vertices = None
    /\ uvs = None
    /\ faces = None
    /\ output_json = NoFile
    /\ i = 0
    /\ map_x_shifted = None
    /\ output_dir = << >>
    /\ shift_from = {}
    /\ write_failed = {}
    /\ on_path \in SUBSET { "xvfb-run", "colmap" }
    /\ sparse_listing \in SUBSET { "0", "1" }
    /\ use_gpu = FALSE
    /\ stage = 0
    /\ started = << >>
    /\ returncodes = << >>
    /\ result = "pending"
    /\ exc = ""

colmap_frame ==
    UNCHANGED << inputs, img, depth_map, depth_normalized, mesh_locals, view_locals,
                 on_path, sparse_listing >>

\* lines 53-71: use_gpu = bool(shutil.which("xvfb-run"))
rcp_setup ==
    /\ prog = "colmap"
    /\ pc = "setup"
    /\ use_gpu' = ("xvfb-run" \in on_path)
    /\ pc' = "makedirs"
    /\ UNCHANGED << stage, started, returncodes, result, exc >>
    /\ colmap_frame

\* lines 73-85: the three os.makedirs, or the OSError one of them raises
rcp_makedirs ==
    /\ prog = "colmap"
    /\ pc = "makedirs"
    /\ \/ /\ pc' = "which"
          /\ UNCHANGED exc
       \/ /\ pc' = "raised"
          /\ exc' = "OSError"
    /\ UNCHANGED << use_gpu, stage, started, returncodes, result >>
    /\ colmap_frame

\* lines 87-101: return False without COLMAP, else go to the first run_command
rcp_which ==
    /\ prog = "colmap"
    /\ pc = "which"
    /\ \/ /\ "colmap" \notin on_path
          /\ result' = "False"
          /\ pc' = "done"
          /\ UNCHANGED stage
       \/ /\ "colmap" \in on_path
          /\ stage' = 1
          /\ pc' = "popen"
          /\ UNCHANGED result
    /\ UNCHANGED << use_gpu, started, returncodes, exc >>
    /\ colmap_frame

\* run_command, lines 16-32 and 42-46: subprocess.Popen starts the command, or
\* raises FileNotFoundError when its first word is not found
rc_popen ==
    /\ prog = "colmap"
    /\ pc = "popen"
    /\ \/ /\ started' = Append(started, FinalCommand(StageCommands[stage], use_gpu))
          /\ pc' = "wait"
          /\ UNCHANGED exc
       \/ /\ exc' = "FileNotFoundError"
          /\ pc' = "raised"
          /\ UNCHANGED started
    /\ UNCHANGED << use_gpu, stage, returncodes, result >>
    /\ colmap_frame

\* run_command, lines 33-41 and 47-49: the output is logged and the process
\* waited for; a failed command raises CalledProcessError; reading the output
\* may raise
rc_wait ==
    /\ prog = "colmap"
    /\ pc = "wait"
    /\ \/ \E returncode \in ReturnCodes :
             /\ returncodes' = Append(returncodes, returncode)
             /\ IF CommandFailed(returncode)
                THEN /\ exc' = "CalledProcessError"
                     /\ pc' = "raised"
                ELSE /\ UNCHANGED exc
                     /\ pc' = "returned"
       \/ /\ exc' = "Exception"
          /\ pc' = "raised"
          /\ UNCHANGED returncodes
    /\ UNCHANGED << use_gpu, stage, started, result >>
    /\ colmap_frame

\* the statements after a run_command call that returned: the next call
\* (lines 104-111, 113-123, 145-155, 157-166), the search for the sparse model
\* before the fourth (lines 125-143), or return True (lines 168-169)
rcp_continue ==
    /\ prog = "colmap"
    /\ pc = "returned"
    /\ \/ /\ stage \in { 1, 2, 4, 5 }
          /\ stage' = stage + 1
          /\ pc' = "popen"
          /\ UNCHANGED << result, exc >>
       \/ /\ stage = 3
          /\ sparse_listing # {}
          /\ stage' = 4
          /\ pc' = "popen"
          /\ UNCHANGED << result, exc >>
       \/ /\ stage = 3
          /\ sparse_listing = {}
          /\ exc' = "FileNotFoundError"
          /\ pc' = "raised"
          /\ UNCHANGED << stage, result >>
       \/ /\ stage = 6
          /\ result' = "True"
          /\ pc' = "done"
          /\ UNCHANGED << stage, exc >>
    /\ UNCHANGED << use_gpu, started, returncodes >>
    /\ colmap_frame

run_colmap_pipeline ==
    \/ rcp_setup
    \/ rcp_makedirs
    \/ rcp_which
    \/ rc_popen
    \/ rc_wait
    \/ rcp_continue

SpecColmap == InitColmap /\ [][run_colmap_pipeline]_vars

(***************************************************************************)
(* Shorthands of the properties.                                           *)
(***************************************************************************)
\* the grid, the samples, the vertices and the UVs exist
VerticesBuilt == prog = "mesh" /\ xv # None /\ pc \in { "faces", "write", "done" }

\* the whole mesh (with its faces) exists
MeshBuilt == prog = "mesh" /\ xv # None /\ pc \in { "write", "done" }

\* lexicographic order of two strings of character codes
RECURSIVE LexLess(_, _)
LexLess(a, b) ==
    IF b = << >> THEN FALSE
    ELSE IF a = << >> THEN TRUE
    ELSE IF Head(a) # Head(b) THEN Head(a) < Head(b)
    ELSE LexLess(Tail(a), Tail(b))

(***************************************************************************)
(* The properties.                                                         *)
(***************************************************************************)
\* C1: for every grid density d >= 2, the mesh that generate_displaced_mesh
\* builds (and the one it writes) has exactly d*d vertices, d*d UV pairs and
\* 2*(d-1)*(d-1) faces, and every index of every face is in 0 .. d*d - 1.
C1_MeshCounts ==
    (MeshBuilt /\ grid_density >= 2) =>
        LET d == grid_density
        IN  /\ Cardinality(DOMAIN vertices) = d * d
            /\ DOMAIN vertices = 0 .. d * d - 1
            /\ DOMAIN uvs = DOMAIN vertices
            /\ Len(faces) = 2 * (d - 1) * (d - 1)
            /\ \A f \in 1 .. Len(faces) :
                   /\ Len(faces[f]) = 3
                   /\ \A k \in 1 .. 3 : faces[f][k] >= 0 /\ faces[f][k] < d * d
            /\ output_json # NoFile =>
                   /\ output_json.vertices = vertices
                   /\ output_json.uvs = uvs
                   /\ output_json.faces = faces

\* C1 witness: a mesh of density 3 was built from a resized depth map and written
C1_Witness ==
    /\ MeshBuilt
    /\ pc = "done"
    /\ grid_density = 3
    /\ depth_file.shape # image_file.shape
    /\ output_json # NoFile
    /\ Len(output_json.faces) = 8

\* C2: at the end of a shift_view call in which something failed (a file could
\* not be read, a directory or an array operation raised, a view could not
\* be written), none of the call's view files has been written.
C2_NoPartialOutput ==
    (/\ prog = "views"
     /\ pc \in { "done", "raised" }
     /\ (pc = "raised" \/ img = None \/ depth_map = None \/ write_failed # {}))
        => output_dir = << >>

\* C3: the files of a shift_view call in which no write failed are one per
\* shift processed, the k-th named from index k-1 (zero-padded) and the literal
\* shift, all names distinct, and in lexicographically increasing order of name;
\* a call that returns has written one file per shift.
C3_NamesSortInOrder ==
    (prog = "views" /\ write_failed = {}) =>
        /\ Len(output_dir) = i
        /\ pc = "done" /\ img # None /\ depth_map # None => Len(output_dir) = Len(shifts)
        /\ \A k \in 1 .. Len(output_dir) :
               /\ output_dir[k].name = OutputFilename(k - 1, shifts[k])
               /\ k > 1 => LexLess(output_dir[k - 1].name, output_dir[k].name)

\* C4: no depth sample of generate_displaced_mesh and no shift of shift_view is
\* computed from a depth array whose shape differs from the image's.
C4_ResizedBeforeUse ==
    /\ (prog = "mesh" /\ sampled_depth # None) => sampled_depth.from = img.shape
    /\ prog = "views" => \A s \in shift_from : s = img.shape

\* C5: a call of generate_displaced_mesh with a grid density below 2 fails
\* before it computes anything: no grid is built, no mesh is produced and no
\* output file is written.
C5_DensityRejected ==
    (prog = "mesh" /\ grid_density < 2) =>
        /\ xv = None
        /\ pc \notin { "sample", "displace", "faces", "write" }
        /\ output_json = NoFile

C7_ZeroShiftIdentity ==
    prog = "views" =>
        /\ \A k \in 1 .. Len(output_dir) :
               output_dir[k].shift_amount = 0 => output_dir[k].data = img
        /\ (pc \in { "loop", "done" } /\ i > 0 /\ shifts[i] = 0) =>
               map_x_shifted = Array(Rows(img), Cols(img), LAMBDA r, c : RInt(c))

\* C7 witness: a view for shift 0 was written for an image two pixels wide and
\* a depth map that is not black
C7_Witness ==
    /\ prog = "views"
    /\ pc = "done"
    /\ img # None
    /\ depth_map # None
    /\ Cols(img) = 2
    /\ NpMax(depth_map) > 0
    /\ \E k \in 1 .. Len(output_dir) :
           output_dir[k].shift_amount = 0 /\ output_dir[k].data = img

\* the scenario of C8: a 4x4 image, a 4x4 depth map of 128 everywhere,
\* density 4, depth scale 0.2
C8_Scenario ==
    /\ VerticesBuilt
    /\ img.shape = << 4, 4 >>
    /\ depth_file = DepthOf("grey", 4, 4)
    /\ grid_density = 4
    /\ depth_scale = Rat(1, 5)

\* C8, as stated: in the scenario every vertex has Z = (128/255 - 0.5) * 0.2.
C8_FlatAt128Over255 ==
    C8_Scenario =>
        \A n \in DOMAIN vertices :
            vertices[n][3] = RMul(RSub(Rat(128, 255), RHalf), Rat(1, 5))

\* C8, amended: in the scenario every vertex has the same Z, and that Z is
\* (128/128 - 0.5) * 0.2 = 0.1: the depth is divided by its maximum, 128.
C8_FlatAtMax ==
    C8_Scenario =>
        /\ \A n \in DOMAIN vertices : vertices[n][3] = Rat(1, 10)
        /\ \A m, n \in DOMAIN vertices : vertices[m][3] = vertices[n][3]
        /\ Cardinality(DOMAIN vertices) = 16

\* C8 witness: the scenario's mesh was written
C8_Witness ==
    /\ C8_Scenario
    /\ pc = "done"
    /\ output_json # NoFile
    /\ output_json.vertices[0][3] = Rat(1, 10)

\* C9: the Y of the vertices strictly decreases as the row index increases;
\* row 0 (vertices 0 .. d-1) has y = +1 and samples image row 0, the last row
\* has y = -1 and samples the bottom image row.
C9_YDecreasesWithRow ==
    (VerticesBuilt /\ grid_density >= 2) =>
        LET d == grid_density
        IN  /\ \A n \in 0 .. d - 1 :
                   /\ vertices[n][2] = RInt(1)
                   /\ At(sampled_depth.y, 0, n) = 0
            /\ \A n \in d * (d - 1) .. d * d - 1 :
                   /\ vertices[n][2] = RInt(-1)
                   /\ At(sampled_depth.y, d - 1, n % d) = Rows(img) - 1
            /\ \A m, n \in DOMAIN vertices :
                   m \div d < n \div d => RLt(vertices[n][2], vertices[m][2])

\* C10, as stated: the sample of lattice point (x, y) is read at column
\* clamp(round(((x/aspectRatio)+1)/2 * W), 0, W-1) and row
\* clamp(round(((-y)+1)/2 * H), 0, H-1).
C10_RoundThenClamp ==
    (VerticesBuilt /\ grid_density >= 2) =>
        LET d == grid_density
            w == Cols(img)
            h == Rows(img)
        IN  \A n \in DOMAIN vertices :
                LET x == vertices[n][1]
                    y == vertices[n][2]
                    col == Clip(Round(RMul(RDiv(RAdd(RDiv(x, Rat(w, h)), RInt(1)),
                                                RInt(2)), RInt(w))), 0, w - 1)
                    row == Clip(Round(RMul(RDiv(RAdd(RNeg(y), RInt(1)),
                                                RInt(2)), RInt(h))), 0, h - 1)
                IN  /\ At(sampled_depth.x, n \div d, n % d) = col
                    /\ At(sampled_depth.y, n \div d, n % d) = row
                    /\ At(sampled_depth.data, n \div d, n % d)
                           = At(depth_normalized, row, col)

\* C10, amended: the column is clamp(floor(((x/aspectRatio)+1)/2 * W), 0, W-1)
\* and the row clamp(floor(((-y)+1)/2 * H), 0, H-1): the mapping truncates
\* before clamping, it does not round.
C10_TruncThenClamp ==
    (VerticesBuilt /\ grid_density >= 2) =>
        LET d == grid_density
            w == Cols(img)
            h == Rows(img)
        IN  \A n \in DOMAIN vertices :
                LET x == vertices[n][1]
                    y == vertices[n][2]
                    col == Clip(Floor(RMul(RDiv(RAdd(RDiv(x, Rat(w, h)), RInt(1)),
                                                RInt(2)), RInt(w))), 0, w - 1)
                    row == Clip(Floor(RMul(RDiv(RAdd(RNeg(y), RInt(1)),
                                                RInt(2)), RInt(h))), 0, h - 1)
                IN  /\ At(sampled_depth.x, n \div d, n % d) = col
                    /\ At(sampled_depth.y, n \div d, n % d) = row
                    /\ At(sampled_depth.data, n \div d, n % d)
                           = At(depth_normalized, row, col)

\* C10 witness: a lattice point whose pixel column differs between truncation
\* and rounding was sampled (density 4, width 2: 2/3 truncates to 0)
C10_Witness ==
    /\ VerticesBuilt
    /\ grid_density = 4
    /\ Cols(img) = 2
    /\ At(sampled_depth.x, 0, 1) = 0
    /\ Round(Rat(2, 3)) = 1

\* the command a started process runs: the last word of its command line
C11_Command(k) == started[k][Len(started[k])]

\* C11: run_colmap_pipeline starts the six COLMAP stages in the order
\* feature_extractor, exhaustive_matcher, mapper, image_undistorter,
\* patch_match_stereo, stereo_fusion; a stage is started only after every
\* earlier stage exited with return code 0; once a stage exited non-zero or its
\* command was not found, no later stage is started and the call raises; the
\* call returns True only after all six stages exited with 0.
C11_StagesInOrder ==
    prog = "colmap" =>
        /\ Len(started) <= 6
        /\ Len(returncodes) <= Len(started)
        /\ Len(started) <= Len(returncodes) + 1
        /\ \A k \in 1 .. Len(started) :
               /\ k = 1 => C11_Command(k) = "feature_extractor"
               /\ k = 2 => C11_Command(k) = "exhaustive_matcher"
               /\ k = 3 => C11_Command(k) = "mapper"
               /\ k = 4 => C11_Command(k) = "image_undistorter"
               /\ k = 5 => C11_Command(k) = "patch_match_stereo"
               /\ k = 6 => C11_Command(k) = "stereo_fusion"
               /\ \A j \in 1 .. k - 1 : returncodes[j] = 0
        /\ \A k \in 1 .. Len(returncodes) :
               returncodes[k] # 0 =>
                   /\ Len(started) = k
                   /\ pc = "raised"
                   /\ exc = "CalledProcessError"
                   /\ result = "pending"
        /\ exc \in { "FileNotFoundError", "Exception" } =>
               /\ pc = "raised"
               /\ Len(started) <= stage
               /\ result = "pending"
        /\ pc = "raised" <=> exc # ""
        /\ result = "True" =>
               /\ pc = "done"
               /\ exc = ""
               /\ Len(started) = 6
               /\ Len(returncodes) = 6
               /\ \A k \in 1 .. 6 : returncodes[k] = 0

\* C11 witness: the call returned True after six stages run under xvfb-run,
\* the sparse model being in a directory other than "0"
C11_Witness ==
    /\ prog = "colmap"
    /\ result = "True"
    /\ use_gpu
    /\ "0" \notin sparse_listing
    /\ Len(started) = 6
    /\ started[6] = << "xvfb-run", "-a", "colmap", "stereo_fusion" >>

====
